---- MODULE Spec2Model ----
(***************************************************************************)
(* Model of the PDF text extraction utilities:                             *)
(*   src/pdf-text-extractor.py                   (standalone script)       *)
(*   src/android/app/src/main/python/mymodule.py (embedded module)         *)
(*                                                                         *)
(* A text is a sequence of characters, a character is a one-element        *)
(* string (a control character without a TLA+ escape is a named token).    *)
(***************************************************************************)
EXTENDS Integers, Sequences, FiniteSets, TLC

(***************************************************************************)
(* Characters and the Python character classes the code tests              *)
(***************************************************************************)
NL == "\n"
TAB == "\t"
SP == " "
BSL == "\\"
CTRL == "<01>"

Lower == {"a", "b", "c", "d", "e", "f", "g", "h", "i", "j", "k", "l", "m",
          "n", "o", "p", "q", "r", "s", "t", "u", "v", "w", "x", "y", "z"}
Upper == {"A", "B", "C", "D", "E", "F", "G", "H", "I", "J", "K", "L", "M",
          "N", "O", "P", "Q", "R", "S", "T", "U", "V", "W", "X", "Y", "Z"}
Digit == {"0", "1", "2", "3", "4", "5", "6", "7", "8", "9"}
Whitespace == {SP, NL, TAB}
BasicPunct == {".", ",", ";", ":", "!", "?", "(", ")", "-"}

\* str.isalnum, str.isalpha, str.isupper, str.isspace, str.isprintable
isalnum(c) == c \in Lower \cup Upper \cup Digit
isalpha(c) == c \in Lower \cup Upper
isupper(c) == c \in Upper
isspace(c) == c \in Whitespace
isprintable(c) == c \notin {NL, TAB, CTRL}
\* the regular-expression classes \w and [a-z]
IsWordChar(c) == isalnum(c) \/ c = "_"
IsAZLower(c) == c \in Lower

(***************************************************************************)
(* Python string primitives                                                *)
(***************************************************************************)
\* c * n for a character c
Rep(s, n) == [i \in 1..(IF n < 0 THEN 0 ELSE n) |-> s[1]]

\* sum(1 for c in s if P(c))
CountIf(s, P(_)) == Cardinality({i \in 1..Len(s) : P(s[i])})

\* the first index in lo..hi that satisfies P, or 0
FirstIndex(lo, hi, P(_)) ==
  IF \E k \in lo..hi : P(k)
  THEN CHOOSE k \in lo..hi : P(k) /\ \A j \in lo..(k - 1) : ~P(j)
  ELSE 0

\* the last index in lo..hi that satisfies P, or 0
LastIndex(lo, hi, P(_)) ==
  IF \E k \in lo..hi : P(k)
  THEN CHOOSE k \in lo..hi : P(k) /\ \A j \in (k + 1)..hi : ~P(j)
  ELSE 0

StartsWithAt(s, sub, i) ==
  /\ i + Len(sub) - 1 <= Len(s)
  /\ \A k \in 1..Len(sub) : s[i + k - 1] = sub[k]

\* s.find(sub, i): the first occurrence at or after i, or 0
FindFrom(s, sub, i) == FirstIndex(i, Len(s), LAMBDA k : StartsWithAt(s, sub, k))

\* sub in s
Contains(s, sub) == \E i \in 1..(Len(s) + 1) : StartsWithAt(s, sub, i)

\* s.startswith(prefix)
startswith(s, prefix) == StartsWithAt(s, prefix, 1)

\* the first non-whitespace index at or after i, or Len(s) + 1
LStripFrom(s, i) ==
  LET k == FirstIndex(i, Len(s), LAMBDA j : ~isspace(s[j]))
  IN IF k = 0 THEN Len(s) + 1 ELSE k

\* the last non-whitespace index at or before j, or 0
RStripFrom(s, j) == LastIndex(1, j, LAMBDA k : ~isspace(s[k]))

\* s.strip()
strip(s) ==
  LET i == LStripFrom(s, 1)
      j == RStripFrom(s, Len(s))
  IN IF i > j THEN <<>> ELSE SubSeq(s, i, j)

RECURSIVE ReplaceFrom(_, _, _, _)
ReplaceFrom(s, old, new, i) ==
  LET k == FindFrom(s, old, i)
  IN IF k = 0 THEN SubSeq(s, i, Len(s))
     ELSE SubSeq(s, i, k - 1) \o new \o ReplaceFrom(s, old, new, k + Len(old))

\* s.replace(old, new): leftmost non-overlapping occurrences, one pass
str_replace(s, old, new) == ReplaceFrom(s, old, new, 1)

RECURSIVE CountFrom(_, _, _)
CountFrom(s, sub, i) ==
  LET k == FindFrom(s, sub, i)
  IN IF k = 0 THEN 0 ELSE 1 + CountFrom(s, sub, k + Len(sub))

\* s.count(sub): non-overlapping occurrences
str_count(s, sub) == CountFrom(s, sub, 1)

(***************************************************************************)
(* re.sub for the patterns of post_process_extracted_text                  *)
(***************************************************************************)
\* End of the match of  FIRST HYPHEN? \s*\n\s*([a-z])  starting at i, or 0.
\* \s*\n\s* consumes only whitespace and [a-z] is not whitespace, so the
\* match, if any, ends at the first non-whitespace character after the
\* prefix, and the whitespace run must hold a newline.
BrokenMatchEnd(s, i, first, hyphen) ==
  IF ~(IsAZLower(s[i]) \/ (first = "az," /\ s[i] = ",")) THEN 0
  ELSE IF hyphen /\ ~(i + 1 <= Len(s) /\ s[i + 1] = "-") THEN 0
  ELSE LET j == IF hyphen THEN i + 2 ELSE i + 1
           k == LStripFrom(s, j)
       IN IF /\ k <= Len(s)
             /\ IsAZLower(s[k])
             /\ \E t \in j..(k - 1) : s[t] = NL
          THEN k ELSE 0

\* re.sub scans left to right and resumes after each match
RECURSIVE JoinFrom(_, _, _, _, _)
JoinFrom(s, i, first, hyphen, sep) ==
  LET m == FirstIndex(i, Len(s), LAMBDA k : BrokenMatchEnd(s, k, first, hyphen) > 0)
  IN IF m = 0 THEN SubSeq(s, i, Len(s))
     ELSE LET e == BrokenMatchEnd(s, m, first, hyphen)
          IN SubSeq(s, i, m) \o sep \o <<s[e]>>
               \o JoinFrom(s, e + 1, first, hyphen, sep)

\* re.sub(r'([a-z])-\s*\n\s*([a-z])', r'\1\2', s)
sub_hyphenated(s) == JoinFrom(s, 1, "az", TRUE, <<>>)
\* re.sub(r'([a-z])\s*\n\s*([a-z])', r'\1\2', s)
sub_split_words(s) == JoinFrom(s, 1, "az", FALSE, <<>>)
\* re.sub(r'([a-z,])\s*\n\s*([a-z])', r'\1 \2', s)
sub_split_sentences(s) == JoinFrom(s, 1, "az,", FALSE, <<SP>>)

\* the last index of the run of newlines that starts at i
NewlineRunEnd(s, i) ==
  LET k == FirstIndex(i, Len(s), LAMBDA j : s[j] # NL)
  IN IF k = 0 THEN Len(s) ELSE k - 1

RECURSIVE CollapseFrom(_, _)
CollapseFrom(s, i) ==
  LET m == FindFrom(s, <<NL, NL, NL>>, i)
  IN IF m = 0 THEN SubSeq(s, i, Len(s))
     ELSE SubSeq(s, i, m - 1) \o <<NL, NL>>
            \o CollapseFrom(s, NewlineRunEnd(s, m) + 1)

\* re.sub(r'\n{3,}', '\n\n', s)
sub_line_breaks(s) == CollapseFrom(s, 1)

\* \b before position i and after position i + Len(w) - 1 of a word w of
\* word characters
WholeWordAt(s, w, i) ==
  /\ StartsWithAt(s, w, i)
  /\ (i = 1 \/ ~IsWordChar(s[i - 1]))
  /\ (i + Len(w) > Len(s) \/ ~IsWordChar(s[i + Len(w)]))

RECURSIVE WordSubFrom(_, _, _, _)
WordSubFrom(s, w, new, i) ==
  LET m == FirstIndex(i, Len(s), LAMBDA k : WholeWordAt(s, w, k))
  IN IF m = 0 THEN SubSeq(s, i, Len(s))
     ELSE SubSeq(s, i, m - 1) \o new \o WordSubFrom(s, w, new, m + Len(w))

\* re.sub(r'\b' + re.escape(wrong) + r'\b', correct, s)
sub_whole_word(s, wrong, correct) == WordSubFrom(s, wrong, correct, 1)

\* the ocr_fixes table, in insertion order
ocr_fixes == << <<<<"r", "n">>, <<"m">>>>, <<<<"v", "v">>, <<"w">>>>,
                <<<<"0">>, <<"O">>>>, <<<<"1">>, <<"l">>>> >>

\* r'\b' + re.escape(wrong) + r'\b' as a string (escape leaves letters and
\* digits alone)
fix_pattern(wrong) == <<BSL, "b">> \o wrong \o <<BSL, "b">>

RECURSIVE apply_ocr_fixes(_, _)
apply_ocr_fixes(cleaned, n) ==
  IF n > Len(ocr_fixes) THEN cleaned
  ELSE LET wrong == ocr_fixes[n][1]
           correct == ocr_fixes[n][2]
       IN IF /\ wrong \in {<<"r", "n">>, <<"v", "v">>}
             /\ Contains(cleaned, fix_pattern(wrong))
          THEN apply_ocr_fixes(sub_whole_word(cleaned, wrong, correct), n + 1)
          ELSE apply_ocr_fixes(cleaned, n + 1)

\* cleaned.replace('  ', ' ')
collapse_double_spaces(s) == str_replace(s, <<SP, SP>>, <<SP>>)

post_process_extracted_text(text) ==
  IF text = <<>> THEN text
  ELSE LET c1 == collapse_double_spaces(text)
           c2 == str_replace(c1, <<SP, NL>>, <<NL>>)
           c3 == str_replace(c2, <<NL, SP>>, <<NL>>)
           c4 == sub_hyphenated(c3)
           c5 == sub_split_words(c4)
           c6 == sub_split_sentences(c5)
           c7 == sub_line_breaks(c6)
           c8 == apply_ocr_fixes(c7, 1)
       IN strip(c8)

(***************************************************************************)
(* is_text_garbled                                                         *)
(***************************************************************************)
MinGarbledLen == 10

IsMeaningful(c) == isalnum(c) \/ isspace(c) \/ c \in BasicPunct

\* a repetition test that is off by one
has_repeated_chars_four(text) ==
  \E ch \in Upper : Contains(text, <<ch, ch, ch, ch>>)

\* any(char * 5 in text for char in 'ABC...Z')
has_repeated_chars(text) ==
  \E ch \in Upper : Contains(text, <<ch, ch, ch, ch, ch>>)

\* '   ' in text or text.count(' ') > len(text) * 0.3
\* (n > len * 0.3 in floating point agrees with 10 n > 3 len on integers)
has_excessive_spaces(text) ==
  \/ Contains(text, <<SP, SP, SP>>)
  \/ 10 * str_count(text, <<SP>>) > 3 * Len(text)

\* sum(1 for c in text if c.isupper()) > len(text) * 0.5
has_random_caps(text) == 2 * CountIf(text, isupper) > Len(text)

is_text_garbled(text) ==
  IF text = <<>> \/ Len(strip(text)) < MinGarbledLen THEN TRUE
  ELSE LET meaningful_chars == CountIf(text, IsMeaningful)
           total_chars == Len(text)
       IN IF total_chars = 0 THEN TRUE
          ELSE \* meaningful_chars / total_chars < 0.7
               \/ 10 * meaningful_chars < 7 * total_chars
               \/ has_excessive_spaces(text)
               \/ has_random_caps(text)
               \/ has_repeated_chars(text)

(***************************************************************************)
(* String literals of the two programs                                     *)
(***************************************************************************)
\* main, line 376
MSG_PATH_REQUIRED ==
  <<"P", "D", "F", SP, "f", "i", "l", "e", SP, "p", "a", "t", "h", SP, "i",
    "s", SP, "r", "e", "q", "u", "i", "r", "e", "d", SP, "a", "s", SP, "a",
    "r", "g", "u", "m", "e", "n", "t">>
\* main, line 389
MSG_INSTALL_FAILED ==
  <<"F", "a", "i", "l", "e", "d", SP, "t", "o", SP, "i", "n", "s", "t",
    "a", "l", "l", SP, "r", "e", "q", "u", "i", "r", "e", "d", SP, "p",
    "a", "c", "k", "a", "g", "e", "s">>
\* extract_text_from_pdf, line 258
MSG_NOT_FOUND ==
  <<"P", "D", "F", SP, "f", "i", "l", "e", SP, "n", "o", "t", SP, "f", "o",
    "u", "n", "d", ":", SP>>
\* extract_pdf_text, line 92
MSG_NOT_FOUND_TRIED ==
  <<"P", "D", "F", SP, "f", "i", "l", "e", SP, "n", "o", "t", SP, "f", "o",
    "u", "n", "d", ".", SP, "T", "r", "i", "e", "d", SP, "p", "a", "t",
    "h", "s", ":", SP>>
\* extract_pdf_text, line 150
MSG_NOT_VALID_PDF ==
  <<"F", "i", "l", "e", SP, "d", "o", "e", "s", SP, "n", "o", "t", SP, "a",
    "p", "p", "e", "a", "r", SP, "t", "o", SP, "b", "e", SP, "a", SP, "v",
    "a", "l", "i", "d", SP, "P", "D", "F">>
\* extract_pdf_text, line 180
MSG_NOT_PROCESSED ==
  <<"P", "D", "F", SP, "f", "i", "l", "e", SP, "e", "x", "i", "s", "t",
    "s", SP, "b", "u", "t", SP, "c", "o", "u", "l", "d", SP, "n", "o", "t",
    SP, "b", "e", SP, "p", "r", "o", "c", "e", "s", "s", "e", "d", ":", SP>>
\* extract_pdf_text, line 172
MSG_DETECTED ==
  <<"P", "D", "F", SP, "f", "i", "l", "e", SP, "d", "e", "t", "e", "c",
    "t", "e", "d", SP, "(", "s", "i", "z", "e", ":", SP>>
\* extract_pdf_text, line 172
MSG_REQUIRES ==
  <<SP, "b", "y", "t", "e", "s", ")", ".", SP, "T", "e", "x", "t", SP, "e",
    "x", "t", "r", "a", "c", "t", "i", "o", "n", SP, "r", "e", "q", "u",
    "i", "r", "e", "s", SP, "P", "y", "P", "D", "F", "2", SP, "l", "i",
    "b", "r", "a", "r", "y", ".">>
\* extract_pdf_text, line 139
MSG_PYPDF2_ERROR ==
  <<NL, NL, NL, NL, ";", SP, "P", "y", "P", "D", "F", "2", SP, "e", "r",
    "r", "o", "r", ":", SP>>
\* extract_pdf_text, line 149
PDF_SIGNATURE ==
  <<"%", "P", "D", "F", "-">>
\* extract_pdf_text, line 176
PAGE_MARK ==
  <<"/", "T", "y", "p", "e", "/", "P", "a", "g", "e">>
\* the filename of a result without a path
UNKNOWN ==
  <<"u", "n", "k", "n", "o", "w", "n">>

\* the Android locations of possible_paths, lines 49-53
ANDROID_PREFIXES == <<
  <<"/", "a", "n", "d", "r", "o", "i", "d", "_", "a", "s", "s", "e", "t",
    "/">>,
  <<"/", "d", "a", "t", "a", "/", "d", "a", "t", "a", "/", "c", "o", "m",
    ".", "c", "h", "a", "t", "w", "i", "t", "h", "p", "d", "f", "/", "a",
    "s", "s", "e", "t", "s", "/">>,
  <<"/", "d", "a", "t", "a", "/", "d", "a", "t", "a", "/", "c", "o", "m",
    ".", "c", "h", "a", "t", "w", "i", "t", "h", "p", "d", "f", "/", "f",
    "i", "l", "e", "s", "/">>,
  <<"/", "s", "t", "o", "r", "a", "g", "e", "/", "e", "m", "u", "l", "a",
    "t", "e", "d", "/", "0", "/", "D", "o", "w", "n", "l", "o", "a", "d",
    "/">>,
  <<"/", "s", "d", "c", "a", "r", "d", "/", "D", "o", "w", "n", "l", "o",
    "a", "d", "/">> >>

\* the roots of search_patterns, lines 72-75 (each is followed by the basename)
GLOB_ROOTS == <<
  <<"/", "*", "*", "/">>,
  <<"/", "d", "a", "t", "a", "/", "*", "*", "/">>,
  <<"/", "s", "t", "o", "r", "a", "g", "e", "/", "*", "*", "/">>,
  <<"/", "a", "n", "d", "r", "o", "i", "d", "_", "a", "s", "s", "e", "t",
    "/", "*", "*", "/">> >>

(***************************************************************************)
(* Inputs: paths, languages, the file system, what the libraries return    *)
(***************************************************************************)
PATH_ABS ==
  <<"/", "n", "o", "/", "s", "u", "c", "h", "/", "f", "i", "l", "e", ".",
    "p", "d", "f">>
PATH_BARE ==
  <<"a", ".", "p", "d", "f">>
PATH_EMPTY == <<>>
PathInputs == {PATH_ABS, PATH_BARE, PATH_EMPTY}
LanguageInputs == {"eng", "hin"}
DEFAULT_LANGUAGE == "eng"

\* the messages of the exceptions the environment raises
EXC_OS ==
  <<"[", "E", "r", "r", "n", "o", SP, "1", "3", "]", SP, "P", "e", "r",
    "m", "i", "s", "s", "i", "o", "n", SP, "d", "e", "n", "i", "e", "d">>
EXC_LIB ==
  <<"E", "O", "F", SP, "m", "a", "r", "k", "e", "r", SP, "n", "o", "t", SP,
    "f", "o", "u", "n", "d">>

\* directories a recursive glob can find the file in
GLOB_DIR_1 ==
  <<"/", "d", "a", "t", "a", "/", "u", "s", "e", "r", "/", "0", "/", "c",
    "a", "c", "h", "e", "/">>
GLOB_DIR_2 ==
  <<"/", "s", "t", "o", "r", "a", "g", "e", "/", "s", "e", "l", "f", "/",
    "p", "r", "i", "m", "a", "r", "y", "/">>

MaxPages == 2

\* os.path.basename(p): what follows the last "/"
LastSlash(p, i) == LastIndex(1, i, LAMBDA k : p[k] = "/")

basename(p) == SubSeq(p, LastSlash(p, Len(p)) + 1, Len(p))

\* possible_paths, lines 47-55
possible_paths(p) ==
  <<p>> \o [i \in 1..Len(ANDROID_PREFIXES) |-> ANDROID_PREFIXES[i] \o basename(p)]
        \o <<basename(p)>>

\* search_patterns, lines 71-76
search_patterns(p) == [i \in 1..Len(GLOB_ROOTS) |-> GLOB_ROOTS[i] \o basename(p)]

RangeOf(f) == {f[i] : i \in DOMAIN f}

\* the directory a pattern searches: the root without its "**/"
glob_prefix(root) == SubSeq(root, 1, Len(root) - 3)

\* the files glob.glob(root + base, recursive=True) matches: those under the
\* root's directory, at any depth, whose last component is base
glob_matching(root, base, fs) ==
  {f \in fs : startswith(f, glob_prefix(root)) /\ basename(f) = base}

\* the orders a directory scan can list a set of files in
Orderings(S) ==
  {q \in [1..Cardinality(S) -> S] : \A i, j \in DOMAIN q : q[i] = q[j] => i = j}

\* what glob.glob can return for pattern i: an exception, or its matches in
\* some order
GlobOutcomes(i, p, fs, raising) ==
  IF i \in raising THEN {[raises |-> TRUE, matches |-> <<>>]}
  ELSE {[raises |-> FALSE, matches |-> q] :
          q \in Orderings(glob_matching(GLOB_ROOTS[i], basename(p), fs))}

\* what the globs of a run return when they are called (no call is made
\* while a candidate path exists, lines 67-87)
GlobResults(p, fs, raising) ==
  IF \E i \in 1..Len(possible_paths(p)) : possible_paths(p)[i] \in fs
  THEN {[i \in 1..Len(GLOB_ROOTS) |-> [raises |-> FALSE, matches |-> <<>>]]}
  ELSE {<<g1, g2, g3, g4>> :
          g1 \in GlobOutcomes(1, p, fs, raising), g2 \in GlobOutcomes(2, p, fs, raising),
          g3 \in GlobOutcomes(3, p, fs, raising), g4 \in GlobOutcomes(4, p, fs, raising)}

ExistsProbe(path) == [op |-> "exists", arg |-> path]
GlobProbe(pattern, outcome) ==
  [op |-> "glob", arg |-> pattern, raised |-> outcome.raises,
   matches |-> outcome.matches]

\* `not found_path`: None is <<>>, a found path is <<path>>; an empty string
\* is falsy too
NotFound(found) == found = <<>> \/ found[1] = <<>>

\* a loop without the break: every candidate is tested, the last hit is kept
probe_paths_no_break(paths, i, files, log) ==
  LET hits == {k \in i..Len(paths) : paths[k] \in files}
  IN [found |-> IF hits = {} THEN <<>>
                ELSE <<paths[CHOOSE k \in hits : \A j \in hits : j <= k]>>,
      probed |-> log \o [k \in 1..(Len(paths) - i + 1) |-> ExistsProbe(paths[k + i - 1])]]

\* the loop over possible_paths, lines 57-65: stops at the first that exists
RECURSIVE probe_paths(_, _, _, _)
probe_paths(paths, i, files, log) ==
  IF i > Len(paths) THEN [found |-> <<>>, probed |-> log]
  ELSE IF paths[i] \in files
       THEN [found |-> <<paths[i]>>, probed |-> Append(log, ExistsProbe(paths[i]))]
       ELSE probe_paths(paths, i + 1, files, Append(log, ExistsProbe(paths[i])))

\* the loop over search_patterns, lines 78-87: a failing glob is skipped
RECURSIVE probe_globs(_, _, _, _)
probe_globs(patterns, i, globs, log) ==
  IF i > Len(patterns) THEN [found |-> <<>>, probed |-> log]
  ELSE IF ~globs[i].raises /\ globs[i].matches # <<>>
       THEN [found |-> <<globs[i].matches[1]>>,
             probed |-> Append(log, GlobProbe(patterns[i], globs[i]))]
       ELSE probe_globs(patterns, i + 1, globs,
                        Append(log, GlobProbe(patterns[i], globs[i])))

\* lines 42-88 and 105: the path the extraction will read, or none
resolve_path(p, files, globs) ==
  IF p \in files
  THEN [found |-> <<p>>, probed |-> <<ExistsProbe(p)>>]
  ELSE LET byPath == probe_paths(possible_paths(p), 1, files, <<ExistsProbe(p)>>)
       IN IF NotFound(byPath.found)
          THEN probe_globs(search_patterns(p), 1, globs, byPath.probed)
          ELSE byPath

(***************************************************************************)
(* What the libraries return for a document                                *)
(***************************************************************************)
NLNL == <<NL, NL>>

\* One page under pytesseract.image_to_string: the call with the primary
\* configuration and the call with the alternate one each return a text or
\* raise.
OcrPage(praises, primary, araises, alt) ==
  [primary_raises |-> praises, primary |-> primary,
   alt_raises |-> araises, alt |-> alt]

OCR_CLEAN_49 == Rep(<<"o">>, 49)
OCR_CLEAN_50 == Rep(<<"o">>, 50)
OCR_CAPS == Rep(<<"Q">>, 12)
OCR_ALT_CLEAN == Rep(<<"t">>, 49)
OCR_ALT_CAPS == Rep(<<"T">>, 49)

OcrPages ==
  {OcrPage(TRUE, <<>>, FALSE, <<>>),
   OcrPage(FALSE, OCR_CLEAN_49, FALSE, <<>>),
   OcrPage(FALSE, OCR_CLEAN_50, FALSE, <<>>),
   OcrPage(FALSE, <<>>, TRUE, <<>>),
   OcrPage(FALSE, <<>>, FALSE, OCR_ALT_CLEAN),
   OcrPage(FALSE, OCR_CAPS, FALSE, OCR_ALT_CLEAN),
   OcrPage(FALSE, OCR_CAPS, FALSE, OCR_ALT_CAPS)}

SeqsUpTo(S, n) == UNION {[1..k -> S] : k \in 0..n}

\* convert_from_path (or an import) raises, or the document has these pages
OcrOutcomes ==
  {[open |-> "raise", pages |-> <<>>]}
    \cup {[open |-> "ok", pages |-> ps] : ps \in SeqsUpTo(OcrPages, MaxPages)}

\* One page under PyPDF2's page.extract_text(): a text, None, or it raises
PdfPage(kind, text) == [kind |-> kind, text |-> text]
PDF_TEXT_30 == Rep(<<"p">>, 30)
PdfPages ==
  {PdfPage("text", PDF_TEXT_30), PdfPage("text", <<>>),
   PdfPage("none", <<>>), PdfPage("raise", <<>>)}

\* open/PdfReader raises, or the reader lists these pages; with iter_fail the
\* iteration over pdf_reader.pages raises when it fetches the last of them
PdfOutcomes ==
  {[open |-> "raise", pages |-> <<>>, iter_fail |-> FALSE]}
    \cup {[open |-> "ok", pages |-> ps, iter_fail |-> FALSE] :
            ps \in SeqsUpTo(PdfPages, MaxPages)}
    \cup {[open |-> "ok", pages |-> ps, iter_fail |-> TRUE] :
            ps \in SeqsUpTo({PdfPage("text", PDF_TEXT_30)}, MaxPages) \ {<<>>}}

\* What PDF2Text.extract() returns: a string, a list of page data, another
\* object (rendered by str), or it raises (as does a missing library)
MULTI_TEXT_30 == Rep(<<"m">>, 30)
MULTI_TEXT_60_PADDED == <<SP, SP>> \o Rep(<<"m">>, 60) \o <<NL>>
MULTI_TEXT_120 == Rep(<<"m">>, 120)
MULTI_OBJECT_STR == <<"N", "o", "n", "e">>
PageData(kind, text) == [kind |-> kind, text |-> text]
MultiItems ==
  {PageData("dict", MULTI_TEXT_30), PageData("str", MULTI_TEXT_30),
   PageData("other", <<>>), PageData("dict_bad_text", <<>>)}
MultiOutcomes ==
  {[kind |-> "raise", text |-> <<>>, items |-> <<>>],
   [kind |-> "other", text |-> MULTI_OBJECT_STR, items |-> <<>>]}
    \cup {[kind |-> "str", text |-> t, items |-> <<>>] :
            t \in {<<>>, MULTI_TEXT_60_PADDED, MULTI_TEXT_120}}
    \cup {[kind |-> "list", text |-> <<>>, items |-> it] :
            it \in SeqsUpTo(MultiItems, MaxPages)}

(***************************************************************************)
(* Standalone script: the three strategies                                 *)
(***************************************************************************)
MULTI_THRESHOLD == 100
BASIC_THRESHOLD == 50
\* --psm 6 at line 157, --psm 3 at line 169
PSM_PRIMARY == 6
PSM_ALTERNATE == 3

\* lines 160-180: the text a page adds, <<text>>, or <<>> when the page's
\* try block raised
ocr_page_text(pg) ==
  IF pg.primary_raises THEN <<>>
  ELSE IF is_text_garbled(pg.primary)
       THEN IF pg.alt_raises THEN <<>>
            ELSE IF Len(pg.alt) > Len(pg.primary) /\ ~is_text_garbled(pg.alt)
                 THEN <<pg.alt>>
                 ELSE <<pg.primary>>
       ELSE <<pg.primary>>

\* a page loop that always tries the second configuration as well
ocr_page_calls_always_retry(pg) ==
  IF pg.primary_raises THEN <<[config |-> PSM_PRIMARY, raised |-> TRUE]>>
  ELSE <<[config |-> PSM_PRIMARY, raised |-> FALSE],
         [config |-> PSM_ALTERNATE, raised |-> pg.alt_raises]>>

\* lines 161-172: the calls of pytesseract.image_to_string a page gets, in
\* order, each with its --psm configuration and whether it raised
ocr_page_calls(pg) ==
  IF pg.primary_raises THEN <<[config |-> PSM_PRIMARY, raised |-> TRUE]>>
  ELSE IF is_text_garbled(pg.primary)
       THEN <<[config |-> PSM_PRIMARY, raised |-> FALSE],
              [config |-> PSM_ALTERNATE, raised |-> pg.alt_raises]>>
       ELSE <<[config |-> PSM_PRIMARY, raised |-> FALSE]>>

\* lines 150-180: per page, the calls made and what the page added to the text
ocr_log(doc) ==
  IF doc.open = "raise" THEN <<>>
  ELSE [i \in 1..Len(doc.pages) |->
          [calls |-> ocr_page_calls(doc.pages[i]),
           added |-> ocr_page_text(doc.pages[i])]]

RECURSIVE ocr_accumulate(_, _, _)
ocr_accumulate(pages, i, acc) ==
  IF i > Len(pages) THEN acc
  ELSE LET t == ocr_page_text(pages[i])
       IN ocr_accumulate(pages, i + 1,
                         IF t = <<>> THEN acc ELSE acc \o t[1] \o NLNL)

\* extract_with_enhanced_ocr, lines 127-186
extract_with_enhanced_ocr(doc) ==
  IF doc.open = "raise" THEN [raised |-> TRUE, text |-> <<>>]
  ELSE [raised |-> FALSE, text |-> strip(ocr_accumulate(doc.pages, 1, <<>>))]

\* lines 292-301: the content as one string, or a TypeError
RECURSIVE multi_flatten(_, _, _)
multi_flatten(items, i, combined) ==
  IF i > Len(items) THEN [raised |-> FALSE, text |-> strip(combined)]
  ELSE IF items[i].kind = "dict_bad_text" THEN [raised |-> TRUE, text |-> <<>>]
  ELSE IF items[i].kind \in {"dict", "str"}
       THEN multi_flatten(items, i + 1, combined \o items[i].text \o NLNL)
       ELSE multi_flatten(items, i + 1, combined)

multi_content(doc) ==
  IF doc.kind = "raise" THEN [raised |-> TRUE, text |-> <<>>]
  ELSE IF doc.kind = "list" THEN multi_flatten(doc.items, 1, <<>>)
  ELSE [raised |-> FALSE, text |-> doc.text]

\* lines 317-321: every page's text followed by a blank line; a page that
\* raises or returns None ends the loop with an exception
RECURSIVE basic_accumulate(_, _, _)
basic_accumulate(doc, i, basic_text) ==
  IF i > Len(doc.pages) THEN [raised |-> FALSE, text |-> basic_text]
  ELSE IF doc.iter_fail /\ i = Len(doc.pages) THEN [raised |-> TRUE, text |-> <<>>]
  ELSE IF doc.pages[i].kind # "text" THEN [raised |-> TRUE, text |-> <<>>]
  ELSE basic_accumulate(doc, i + 1, basic_text \o doc.pages[i].text \o NLNL)

basic_pypdf2(doc) ==
  IF doc.open = "raise" THEN [raised |-> TRUE, text |-> <<>>]
  ELSE basic_accumulate(doc, 1, <<>>)

\* a threshold test that is off by one
needs_multilingual_inclusive(text) ==
  text = <<>> \/ Len(strip(text)) <= MULTI_THRESHOLD

\* line 273
needs_multilingual(text) == text = <<>> \/ Len(strip(text)) < MULTI_THRESHOLD
\* line 312
needs_basic(text) == text = <<>> \/ Len(strip(text)) < BASIC_THRESHOLD
\* lines 303 and 323
is_longer(candidate, held) == Len(strip(candidate)) > Len(strip(held))

(***************************************************************************)
(* Embedded module: PyPDF2 and the raw byte scan                           *)
(***************************************************************************)
FRAGMENT_LIMIT == 50

\* lines 125-133: a page that raises is skipped, an empty text adds nothing
RECURSIVE emb_accumulate(_, _, _)
emb_accumulate(doc, i, text) ==
  IF i > Len(doc.pages) THEN [raised |-> FALSE, text |-> text]
  ELSE IF doc.iter_fail /\ i = Len(doc.pages) THEN [raised |-> TRUE, text |-> text]
  ELSE IF doc.pages[i].kind = "text" /\ doc.pages[i].text # <<>>
       THEN emb_accumulate(doc, i + 1, text \o doc.pages[i].text \o NLNL)
       ELSE emb_accumulate(doc, i + 1, text)

\* lines 119-139: raised, the text accumulated so far, and the page count
\* when len(pdf_reader.pages) was reached (-1: page_count not assigned)
emb_pypdf2(doc) ==
  IF doc.open = "raise"
  THEN [raised |-> TRUE, text |-> <<>>, page_count |-> -1]
  ELSE LET r == emb_accumulate(doc, 1, <<>>)
       IN [raised |-> r.raised, text |-> r.text, page_count |-> Len(doc.pages)]

FirstOf(s, i, chars) == FirstIndex(i, Len(s), LAMBDA k : s[k] \in chars)

\* a match of r'\((.*?)\)' starts at i: a "(", then the shortest run without
\* a newline that a ")" ends
ParenMatchEnd(s, i) ==
  IF s[i] # "(" THEN 0
  ELSE LET j == FirstOf(s, i + 1, {")", NL})
       IN IF j > 0 /\ s[j] = ")" THEN j ELSE 0

\* re.findall(r'\((.*?)\)', s)
RECURSIVE findall_parens(_, _)
findall_parens(s, i) ==
  LET m == FirstIndex(i, Len(s), LAMBDA k : ParenMatchEnd(s, k) > 0)
  IN IF m = 0 THEN <<>>
     ELSE LET e == ParenMatchEnd(s, m)
          IN <<SubSeq(s, m + 1, e - 1)>> \o findall_parens(s, e + 1)

\* lines 161-166
RECURSIVE readable_fragments(_, _)
readable_fragments(patterns, i) ==
  IF i > Len(patterns) THEN <<>>
  ELSE LET pattern == patterns[i]
           clean_text == SelectSeq(pattern, LAMBDA c : isprintable(c) \/ isspace(c))
       IN IF /\ Len(pattern) > 3
             /\ \E k \in 1..Len(pattern) : isalpha(pattern[k])
             /\ strip(clean_text) # <<>>
          THEN <<strip(clean_text)>> \o readable_fragments(patterns, i + 1)
          ELSE readable_fragments(patterns, i + 1)

\* '\n'.join(parts)
RECURSIVE join_lines(_, _)
join_lines(parts, i) ==
  IF i > Len(parts) THEN <<>>
  ELSE IF i = Len(parts) THEN parts[i]
  ELSE parts[i] \o <<NL>> \o join_lines(parts, i + 1)

\* str(n) of a natural number
RECURSIVE Decimal(_)
Decimal(n) ==
  LET d == <<"0", "1", "2", "3", "4", "5", "6", "7", "8", "9">>
  IN IF n < 10 THEN <<d[n + 1]>> ELSE Decimal(n \div 10) \o <<d[(n % 10) + 1]>>

\* a join of every fragment found
first_fragments_unlimited(parts) == parts

\* readable_text[:50]
first_fragments(parts) ==
  SubSeq(parts, 1, IF Len(parts) < FRAGMENT_LIMIT THEN Len(parts) ELSE FRAGMENT_LIMIT)

\* lines 143-182: what the fallback leaves in extracted_text,
\* extraction_method and page_count; file is what open/read give
byte_scan(file) ==
  IF file.open = "raise"
  THEN [text |-> MSG_NOT_PROCESSED \o EXC_OS, method |-> "failed", page_count |-> 0,
        raised |-> TRUE]
  ELSE IF ~startswith(file.content, PDF_SIGNATURE)
  THEN [text |-> MSG_NOT_PROCESSED \o MSG_NOT_VALID_PDF, method |-> "failed",
        page_count |-> 0, raised |-> TRUE]
  ELSE LET content_str == file.content
           readable_text == readable_fragments(findall_parens(content_str, 1), 1)
           marks == str_count(content_str, PAGE_MARK)
           pages == IF marks = 0 THEN 1 ELSE marks
       IN IF readable_text # <<>>
          THEN [text |-> join_lines(first_fragments(readable_text), 1),
                method |-> "basic_text_extraction", page_count |-> pages,
                raised |-> FALSE]
          ELSE [text |-> MSG_DETECTED \o Decimal(Len(file.content)) \o MSG_REQUIRES,
                method |-> "file_info_only", page_count |-> pages, raised |-> FALSE]

(***************************************************************************)
(* State                                                                   *)
(***************************************************************************)
VARIABLES
  variant,            \* "standalone", "embedded", or a text function's harness
  pc,                 \* the statement the run is at
  argv,               \* the arguments: <<>>, <<path>> or <<path, language>>
  files,              \* the paths that exist
  glob_raises,        \* the search patterns (by position) whose glob raises
  setup,              \* standalone: what install_required_packages returned
  pdf_path, language, \* the parameters of the extraction
  pypdf2_available,   \* embedded: the import of PyPDF2 succeeded
  probed,             \* embedded: the existence tests and globs made, in order
  extracted_text, extraction_method, err, page_count, filename, file_size,
  attempted,          \* the strategies invoked, in order, and whether each raised
  lastRun,            \* the latest strategy invoked: its document and its result
  ret,                \* standalone: what extract_text_from_pdf returned
  output,             \* the JSON objects printed (standalone) or returned (embedded)
  exit_status,        \* standalone: -1 while running, then the exit status
  input, once, twice, garbled   \* the text functions' argument and results

envVars == <<variant, argv, files, glob_raises>>
runVars == <<pc, setup, pdf_path, language, pypdf2_available, probed, extracted_text,
             extraction_method, err, page_count, filename, file_size, attempted,
             lastRun, ret, output, exit_status>>
textVars == <<input, once, twice, garbled>>
vars == <<envVars, runVars, textVars>>

(***************************************************************************)
(* The JSON objects                                                        *)
(***************************************************************************)
\* {}
EmptyDict == <<>>

\* repr of a list of strings: ['a', 'b']
RECURSIVE list_items(_, _)
list_items(paths, i) ==
  IF i > Len(paths) THEN <<>>
  ELSE <<"'">> \o paths[i] \o <<"'">>
         \o (IF i < Len(paths) THEN <<",", SP>> ELSE <<>>) \o list_items(paths, i + 1)

list_repr(paths) == <<"[">> \o list_items(paths, 1) \o <<"]">>

\* os.path.basename(pdf_path) if pdf_path else 'unknown'
filename_or_unknown(p) == IF p # <<>> THEN basename(p) ELSE UNKNOWN

\* a failure object that forgets its text
main_failure_without_text(message) ==
  [success |-> FALSE, error |-> message, metadata |-> EmptyDict]

\* main, lines 374-379 and 387-392
main_failure(message) ==
  [success |-> FALSE, error |-> message, text |-> <<>>, metadata |-> EmptyDict]

\* extract_text_from_pdf, lines 359-369
standalone_failure(message, p, lang) ==
  [success |-> FALSE, error |-> message, text |-> <<>>,
   metadata |-> [filename |-> filename_or_unknown(p), file_size |-> 0,
                 language |-> lang, extraction_method |-> "failed"]]

\* extract_text_from_pdf, lines 342-352
standalone_result(text, p, size, lang, method) ==
  [success |-> TRUE, text |-> text,
   metadata |-> [filename |-> basename(p), file_size |-> size, language |-> lang,
                 extraction_method |-> method, text_length |-> Len(text)]]

\* a not-found result that reports only the nominal path
embedded_not_found_nominal_only(p, lang) ==
  [success |-> FALSE,
   error |-> MSG_NOT_FOUND_TRIED \o list_repr(possible_paths(p)),
   text |-> <<>>,
   metadata |-> [filename |-> filename_or_unknown(p), file_size |-> 0,
                 language |-> lang, extraction_method |-> "failed",
                 text_length |-> 0, page_count |-> 0,
                 attempted_paths |-> <<p>>]]

\* extract_pdf_text, lines 90-103
embedded_not_found(p, lang) ==
  [success |-> FALSE,
   error |-> MSG_NOT_FOUND_TRIED \o list_repr(possible_paths(p)),
   text |-> <<>>,
   metadata |-> [filename |-> filename_or_unknown(p), file_size |-> 0,
                 language |-> lang, extraction_method |-> "failed",
                 text_length |-> 0, page_count |-> 0,
                 attempted_paths |-> possible_paths(p)]]

\* extract_pdf_text, lines 187-201
embedded_result(text, e, name, size, lang, method, pages, p, available) ==
  [success |-> TRUE, text |-> text, error |-> e,
   metadata |-> [filename |-> name, file_size |-> size, language |-> lang,
                 extraction_method |-> method, text_length |-> Len(text),
                 page_count |-> pages, actual_path |-> p,
                 pypdf2_available |-> available]]

\* extract_pdf_text, lines 208-221
embedded_failure(message, p, lang) ==
  [success |-> FALSE, error |-> message, text |-> <<>>,
   metadata |-> [filename |-> filename_or_unknown(p), file_size |-> 0,
                 language |-> lang, extraction_method |-> "failed",
                 text_length |-> 0, page_count |-> 0]]

(***************************************************************************)
(* The environment of a run                                                *)
(***************************************************************************)
ArgvInputs == {<<>>} \cup {<<p>> : p \in PathInputs} \cup {<<PATH_ABS, "hin">>}

\* files a recursive glob can find below the roots
deep_files(p) == {GLOB_DIR_1 \o basename(p), GLOB_DIR_2 \o basename(p)}

World(fs, raising) == [files |-> fs, glob_raises |-> raising]

\* the worlds of a run: what exists among the paths the variant tests (nothing,
\* one candidate, every candidate from some place of the list on, files only
\* a glob finds) and which globs raise
Worlds(v, args) ==
  IF args = <<>> THEN {World({}, {})}
  ELSE IF v = "standalone" THEN {World(fs, {}) : fs \in SUBSET ({args[1]} \ {<<>>})}
  ELSE LET pp == possible_paths(args[1])
           n == Len(GLOB_ROOTS)
       IN {World({}, {}), World({}, 1..n)}
            \cup {World({pp[i]} \ {<<>>}, {}) : i \in 1..Len(pp)}
            \cup {World({pp[j] : j \in i..Len(pp)} \ {<<>>}, {}) : i \in 1..Len(pp)}
            \cup {World({pp[3]} \cup deep_files(args[1]), {})}
            \cup {World(fs, raising) :
                    fs \in (SUBSET deep_files(args[1])) \ {{}},
                    raising \in {{}, {1}, {1, 2}, 1..n}}

\* os.stat: the size, or it raises
StatOutcomes ==
  {[raises |-> TRUE, size |-> 0], [raises |-> FALSE, size |-> 1024]}

\* install_required_packages, line 21
Packages == {"multilingual-pdf2text", "Pillow", "pytesseract", "opencv-python",
             "pdf2image", "PyPDF2"}
\* a package imports, or is missing and pip installs it, or pip fails
PackageStates == {"present", "installed", "pip_fails"}

\* install_required_packages, lines 17-44
install_required_packages(pk) == \A q \in Packages : pk[q] # "pip_fails"

\* what open(pdf_path, 'rb') and read() give the byte scan
FILE_NOT_PDF ==
  <<"G", "I", "F", "8", "9", "a", SP, "(", "a", "b", "c", "d", ")">>
FILE_TEXT ==
  <<"%", "P", "D", "F", "-", "1", ".", "4", NL, "(", "H", "e", "l", "l",
    "o", SP, "W", "o", "r", "l", "d", ")", "/", "T", "y", "p", "e", "/",
    "P", "a", "g", "e", SP, "(", "a", "b", ")", SP, "(", "1", "2", "3",
    "4", ")", "(", SP, "x", CTRL, "y", "z", SP, ")", "<", "<", "/", "T",
    "y", "p", "e", "/", "P", "a", "g", "e", ">", ">">>
FILE_NO_TEXT ==
  <<"%", "P", "D", "F", "-", "1", ".", "4", SP, "(", "a", "b", ")", SP,
    "(", "1", "2", "3", "4", "5", ")">>
\* a PDF with one more numbered text fragment, (fr01) (fr02) ..., than the
\* scan keeps
RECURSIVE NumberedFragments(_, _)
NumberedFragments(k, n) ==
  IF k > n THEN <<>>
  ELSE <<"(", "f", "r">> \o (IF k < 10 THEN <<"0">> ELSE <<>>) \o Decimal(k)
         \o <<")">> \o NumberedFragments(k + 1, n)
FILE_MANY ==
  <<"%", "P", "D", "F", "-", "1", ".", "7", NL>>
    \o NumberedFragments(1, FRAGMENT_LIMIT + 1)
FileReads ==
  {[open |-> "raise", content |-> <<>>]}
    \cup {[open |-> "ok", content |-> c] :
            c \in {<<>>, FILE_NOT_PDF, FILE_TEXT, FILE_NO_TEXT, FILE_MANY}}

Idle ==
  /\ setup = "not_run"
  /\ pdf_path = <<>> /\ language = DEFAULT_LANGUAGE
  /\ pypdf2_available = FALSE /\ probed = <<>>
  /\ extracted_text = <<>> /\ extraction_method = "none" /\ err = <<>>
  /\ page_count = -1 /\ filename = <<>> /\ file_size = 0
  /\ attempted = <<>> /\ lastRun = <<>> /\ ret = <<>> /\ output = <<>>
  /\ exit_status = -1

TextIdle == input = <<>> /\ once = <<>> /\ twice = <<>> /\ garbled = <<>>

Init ==
  /\ variant \in {"standalone", "embedded"}
  /\ argv \in ArgvInputs
  /\ variant = "embedded" => argv # <<>>
  /\ \E w \in Worlds(variant, argv) :
       files = w.files /\ glob_raises = w.glob_raises
  /\ pc = "start"
  /\ Idle
  /\ TextIdle

(***************************************************************************)
(* Standalone script: main and extract_text_from_pdf                       *)
(***************************************************************************)
Run(strategy, doc, raised, text) ==
  <<[strategy |-> strategy, doc |-> doc, raised |-> raised, text |-> text]>>
Attempt(strategy, raised, text) ==
  [strategy |-> strategy, raised |-> raised, text |-> text]

\* sys.argv[2] if len(sys.argv) > 2 else 'eng'
language_of(args) == IF Len(args) > 1 THEN args[2] ELSE DEFAULT_LANGUAGE

\* main, lines 373-380: no path argument
MainNoArgument ==
  /\ variant = "standalone" /\ pc = "start"
  /\ Len(argv) < 1
  /\ output' = Append(output, main_failure(MSG_PATH_REQUIRED))
  /\ exit_status' = 1
  /\ pc' = "exited"
  /\ UNCHANGED <<envVars, textVars, setup, pdf_path, language, pypdf2_available, probed,
                 extracted_text, extraction_method, err, page_count, filename,
                 file_size, attempted, lastRun, ret>>

\* main, lines 382-393: the arguments are read and the packages set up
MainSetup ==
  /\ variant = "standalone" /\ pc = "start"
  /\ Len(argv) >= 1
  /\ pdf_path' = argv[1]
  /\ language' = language_of(argv)
  /\ \E pk \in [Packages -> PackageStates] :
       IF ~install_required_packages(pk)
       THEN /\ setup' = "failed"
            /\ output' = Append(output, main_failure(MSG_INSTALL_FAILED))
            /\ exit_status' = 1
            /\ pc' = "exited"
       ELSE /\ setup' = "ok"
            /\ pc' = "extract"
            /\ UNCHANGED <<output, exit_status>>
  /\ UNCHANGED <<envVars, textVars, pypdf2_available, probed, extracted_text,
                 extraction_method, err, page_count, filename, file_size,
                 attempted, lastRun, ret>>

\* extract_text_from_pdf, lines 253-261: the existence test
ExtractStart ==
  /\ variant = "standalone" /\ pc = "extract"
  /\ IF pdf_path \notin files
     THEN /\ ret' = <<standalone_failure(MSG_NOT_FOUND \o pdf_path, pdf_path, language)>>
          /\ pc' = "print"
          /\ UNCHANGED <<extracted_text, extraction_method>>
     ELSE /\ extracted_text' = <<>>
          /\ extraction_method' = "none"
          /\ pc' = "ocr"
          /\ UNCHANGED ret
  /\ UNCHANGED <<envVars, textVars, setup, pdf_path, language, pypdf2_available, probed,
                 err, page_count, filename, file_size, attempted, lastRun, output,
                 exit_status>>

\* lines 263-270: method 1, enhanced OCR
StageOcr ==
  /\ variant = "standalone" /\ pc = "ocr"
  /\ \E doc \in OcrOutcomes :
       LET r == extract_with_enhanced_ocr(doc)
       IN /\ extracted_text' = IF r.raised THEN extracted_text ELSE r.text
          /\ extraction_method' = IF r.raised THEN extraction_method ELSE "enhanced_ocr"
          /\ attempted' = Append(attempted, Attempt("enhanced_ocr", r.raised, r.text))
          /\ lastRun' = <<[strategy |-> "enhanced_ocr", doc |-> doc, raised |-> r.raised,
                            text |-> r.text, pages |-> ocr_log(doc)]>>
  /\ pc' = "multi"
  /\ UNCHANGED <<envVars, textVars, setup, pdf_path, language, pypdf2_available, probed,
                 err, page_count, filename, file_size, ret, output, exit_status>>

\* lines 272-309: method 2, multilingual_pdf2text, when the text is short
StageMultilingual ==
  /\ variant = "standalone" /\ pc = "multi"
  /\ IF needs_multilingual(extracted_text)
     THEN \E doc \in MultiOutcomes :
            LET r == multi_content(doc)
                taken == ~r.raised /\ is_longer(r.text, extracted_text)
            IN /\ extracted_text' = IF taken THEN r.text ELSE extracted_text
               /\ extraction_method' =
                    IF taken THEN "multilingual_pdf2text" ELSE extraction_method
               /\ attempted' = Append(attempted, Attempt("multilingual_pdf2text", r.raised, r.text))
               /\ lastRun' = Run("multilingual_pdf2text", doc, r.raised, r.text)
     ELSE UNCHANGED <<extracted_text, extraction_method, attempted, lastRun>>
  /\ pc' = "basic"
  /\ UNCHANGED <<envVars, textVars, setup, pdf_path, language, pypdf2_available, probed,
                 err, page_count, filename, file_size, ret, output, exit_status>>

\* lines 311-329: method 3, PyPDF2, when the text is still short
StageBasic ==
  /\ variant = "standalone" /\ pc = "basic"
  /\ IF needs_basic(extracted_text)
     THEN \E doc \in PdfOutcomes :
            LET r == basic_pypdf2(doc)
                taken == ~r.raised /\ is_longer(r.text, extracted_text)
            IN /\ extracted_text' = IF taken THEN r.text ELSE extracted_text
               /\ extraction_method' = IF taken THEN "pypdf2" ELSE extraction_method
               /\ attempted' = Append(attempted, Attempt("pypdf2", r.raised, r.text))
               /\ lastRun' = Run("pypdf2", doc, r.raised, r.text)
     ELSE UNCHANGED <<extracted_text, extraction_method, attempted, lastRun>>
  /\ pc' = "finish"
  /\ UNCHANGED <<envVars, textVars, setup, pdf_path, language, pypdf2_available, probed,
                 err, page_count, filename, file_size, ret, output, exit_status>>

\* lines 331-369: post-processing, the file's statistics, the result
ExtractFinish ==
  /\ variant = "standalone" /\ pc = "finish"
  /\ \E st \in StatOutcomes :
       LET text == IF extracted_text # <<>>
                   THEN post_process_extracted_text(extracted_text)
                   ELSE extracted_text
       IN /\ extracted_text' = text
          /\ IF st.raises
             THEN /\ ret' = <<standalone_failure(EXC_OS, pdf_path, language)>>
                  /\ UNCHANGED <<file_size, filename>>
             ELSE /\ file_size' = st.size
                  /\ filename' = basename(pdf_path)
                  /\ ret' = <<standalone_result(text, pdf_path, st.size, language,
                                               extraction_method)>>
  /\ pc' = "print"
  /\ UNCHANGED <<envVars, textVars, setup, pdf_path, language, pypdf2_available, probed,
                 extraction_method, err, page_count, attempted, lastRun, output,
                 exit_status>>

\* a main that reports a failed extraction in its exit status
MainPrintExitsOnFailure ==
  /\ variant = "standalone" /\ pc = "print"
  /\ output' = Append(output, ret[1])
  /\ exit_status' = IF ret[1].success THEN 0 ELSE 1
  /\ pc' = "exited"
  /\ UNCHANGED <<envVars, textVars, setup, pdf_path, language, pypdf2_available,
                 probed, extracted_text, extraction_method, err, page_count,
                 filename, file_size, attempted, lastRun, ret>>

\* main, lines 396-399: the result is printed and main returns
MainPrint ==
  /\ variant = "standalone" /\ pc = "print"
  /\ output' = Append(output, ret[1])
  /\ exit_status' = 0
  /\ pc' = "exited"
  /\ UNCHANGED <<envVars, textVars, setup, pdf_path, language, pypdf2_available, probed,
                 extracted_text, extraction_method, err, page_count, filename,
                 file_size, attempted, lastRun, ret>>

(***************************************************************************)
(* Embedded module: extract_pdf_text                                       *)
(***************************************************************************)
\* lines 28-105: the import of PyPDF2 and the search for the file
EmbResolve ==
  /\ variant = "embedded" /\ pc = "start"
  /\ language' = language_of(argv)
  /\ \E available \in BOOLEAN :
       pypdf2_available' = available
  /\ \E globs \in GlobResults(argv[1], files, glob_raises) :
       LET r == resolve_path(argv[1], files, globs)
       IN /\ probed' = r.probed
          /\ IF NotFound(r.found)
             THEN /\ pdf_path' = argv[1]
                  /\ output' = Append(output, embedded_not_found(argv[1], language_of(argv)))
                  /\ pc' = "returned"
             ELSE /\ pdf_path' = r.found[1]
                  /\ pc' = "stat"
                  /\ UNCHANGED output
  /\ UNCHANGED <<envVars, textVars, setup, extracted_text, extraction_method,
                 err, page_count, filename, file_size, attempted, lastRun, ret,
                 exit_status>>

\* lines 107-115: the file's statistics; an exception goes to lines 206-221
EmbStat ==
  /\ variant = "embedded" /\ pc = "stat"
  /\ \E st \in StatOutcomes :
       IF st.raises
       THEN /\ output' = Append(output, embedded_failure(EXC_OS, pdf_path, language))
            /\ pc' = "returned"
            /\ UNCHANGED <<file_size, filename>>
       ELSE /\ file_size' = st.size
            /\ filename' = basename(pdf_path)
            /\ pc' = "pypdf2"
            /\ UNCHANGED output
  /\ extracted_text' = <<>>
  /\ extraction_method' = "none"
  /\ err' = <<>>
  /\ UNCHANGED <<envVars, textVars, setup, pdf_path, language, pypdf2_available, probed,
                 page_count, attempted, lastRun, ret, exit_status>>

\* lines 117-139: PyPDF2, when it was imported
EmbPyPDF2 ==
  /\ variant = "embedded" /\ pc = "pypdf2"
  /\ IF pypdf2_available
     THEN \E doc \in PdfOutcomes :
            LET r == emb_pypdf2(doc)
            IN /\ extracted_text' = r.text
               /\ page_count' = IF r.page_count >= 0 THEN r.page_count ELSE page_count
               /\ extraction_method' = IF r.raised THEN extraction_method ELSE "pypdf2"
               /\ pypdf2_available' = ~r.raised
               /\ err' = IF r.raised THEN err \o MSG_PYPDF2_ERROR \o EXC_LIB ELSE err
               /\ attempted' = Append(attempted, Attempt("pypdf2", r.raised, r.text))
               /\ lastRun' = Run("pypdf2", doc, r.raised, r.text)
     ELSE UNCHANGED <<extracted_text, page_count, extraction_method,
                      pypdf2_available, err, attempted, lastRun>>
  /\ pc' = "fallback"
  /\ UNCHANGED <<envVars, textVars, setup, pdf_path, language, probed, filename,
                 file_size, ret, output, exit_status>>

\* lines 141-182: the raw byte scan, when PyPDF2 gave nothing
EmbFallback ==
  /\ variant = "embedded" /\ pc = "fallback"
  /\ IF ~pypdf2_available /\ extracted_text = <<>>
     THEN \E file \in FileReads :
            LET r == byte_scan(file)
            IN /\ extracted_text' = r.text
               /\ extraction_method' = r.method
               /\ page_count' = r.page_count
               /\ attempted' = Append(attempted, Attempt("byte_scan", r.raised, r.text))
               /\ lastRun' = Run("byte_scan", file, r.raised, r.text)
     ELSE UNCHANGED <<extracted_text, extraction_method, page_count, attempted,
                      lastRun>>
  /\ pc' = "result"
  /\ UNCHANGED <<envVars, textVars, setup, pdf_path, language, pypdf2_available, probed,
                 err, filename, file_size, ret, output, exit_status>>

\* lines 184-204: the text is trimmed and the result returned
EmbReturn ==
  /\ variant = "embedded" /\ pc = "result"
  /\ extracted_text' = strip(extracted_text)
  /\ output' = Append(output,
                 embedded_result(strip(extracted_text), err, filename, file_size,
                                 language, extraction_method, page_count, pdf_path,
                                 pypdf2_available))
  /\ pc' = "returned"
  /\ UNCHANGED <<envVars, textVars, setup, pdf_path, language, pypdf2_available, probed,
                 extraction_method, err, page_count, filename, file_size,
                 attempted, lastRun, ret, exit_status>>

Next ==
  \/ MainNoArgument
  \/ MainSetup
  \/ ExtractStart
  \/ StageOcr
  \/ StageMultilingual
  \/ StageBasic
  \/ ExtractFinish
  \/ MainPrint
  \/ EmbResolve
  \/ EmbStat
  \/ EmbPyPDF2
  \/ EmbFallback
  \/ EmbReturn

Spec == Init /\ [][Next]_vars

(***************************************************************************)
(* The text functions on their own: the argument is a concatenation of a   *)
(* few tokens, the action applies the function                             *)
(***************************************************************************)
MaxPostTokens == 3
MaxGarbledTokens == 3

PostTokens ==
  {<<"a">>,
   <<SP>>,
   <<SP, SP, SP>>,
   <<NL>>,
   <<"-">>,
   <<",">>,
   <<"A">>,
   <<"r", "n">>,
   <<BSL, "b", "r", "n", BSL, "b">>,
   <<TAB>>}

GarbledTokens ==
  {<<"a", "a", "a", "a", "a">>,
   <<"a", SP, "a", SP, "a", SP>>,
   <<"A", "A", "A", "A", "A">>,
   <<"A", "B", "C", "D", "E">>,
   <<"#", "#", "#", "#", "#">>,
   <<SP, SP, SP>>,
   <<SP>>,
   <<"a">>,
   <<"#">>,
   <<"A", "A", "A", "A">>}

RECURSIVE Flatten(_, _)
Flatten(tokens, i) ==
  IF i > Len(tokens) THEN <<>> ELSE tokens[i] \o Flatten(tokens, i + 1)

TextInputs(tokens, n) == {Flatten(ts, 1) : ts \in SeqsUpTo(tokens, n)}

InitPost ==
  /\ variant = "post_process"
  /\ argv = <<>> /\ files = {} /\ glob_raises = {}
  /\ pc = "text"
  /\ Idle
  /\ input \in TextInputs(PostTokens, MaxPostTokens)
  /\ once = <<>> /\ twice = <<>> /\ garbled = <<>>

\* post_process_extracted_text(input)
PostProcessOnce ==
  /\ variant = "post_process" /\ pc = "text"
  /\ once' = <<post_process_extracted_text(input)>>
  /\ pc' = "once"
  /\ UNCHANGED <<envVars, setup, pdf_path, language, pypdf2_available, probed,
                 extracted_text, extraction_method, err, page_count, filename,
                 file_size, attempted, lastRun, ret, output, exit_status,
                 input, twice, garbled>>

\* post_process_extracted_text applied to its own result
PostProcessTwice ==
  /\ variant = "post_process" /\ pc = "once"
  /\ twice' = <<post_process_extracted_text(once[1])>>
  /\ pc' = "twice"
  /\ UNCHANGED <<envVars, setup, pdf_path, language, pypdf2_available, probed,
                 extracted_text, extraction_method, err, page_count, filename,
                 file_size, attempted, lastRun, ret, output, exit_status,
                 input, once, garbled>>

NextPost == PostProcessOnce \/ PostProcessTwice

SpecPost == InitPost /\ [][NextPost]_vars

InitGarbled ==
  /\ variant = "is_text_garbled"
  /\ argv = <<>> /\ files = {} /\ glob_raises = {}
  /\ pc = "text"
  /\ Idle
  /\ input \in TextInputs(GarbledTokens, MaxGarbledTokens)
  /\ once = <<>> /\ twice = <<>> /\ garbled = <<>>

\* is_text_garbled(input)
ClassifyGarbled ==
  /\ variant = "is_text_garbled" /\ pc = "text"
  /\ garbled' = <<is_text_garbled(input)>>
  /\ pc' = "classified"
  /\ UNCHANGED <<envVars, setup, pdf_path, language, pypdf2_available, probed,
                 extracted_text, extraction_method, err, page_count, filename,
                 file_size, attempted, lastRun, ret, output, exit_status,
                 input, once, twice>>

NextGarbled == ClassifyGarbled

SpecGarbled == InitGarbled /\ [][NextGarbled]_vars

(***************************************************************************)
(* Properties                                                              *)
(***************************************************************************)
RequiredKeys == {"success", "text", "metadata"}
Finished == pc \in {"exited", "returned"}

\* the error field of a result, empty when the result has none
ErrorOf(r) == IF "error" \in DOMAIN r THEN r.error ELSE <<>>

\* the length of a text without its leading and trailing whitespace
TrimmedLength(t) ==
  LET solid == {i \in 1..Len(t) : t[i] \notin Whitespace}
  IN IF solid = {} THEN 0
     ELSE (CHOOSE i \in solid : \A j \in solid : j <= i)
            - (CHOOSE i \in solid : \A j \in solid : i <= j) + 1

\* the candidate paths of the embedded module, in the order it lists them
ExpectedCandidates(p) ==
  LET b == basename(p)
  IN <<p, ANDROID_PREFIXES[1] \o b, ANDROID_PREFIXES[2] \o b, ANDROID_PREFIXES[3] \o b,
       ANDROID_PREFIXES[4] \o b, ANDROID_PREFIXES[5] \o b, b>>

\* the files the i-th search pattern finds: none when its glob raises
MatchSet(i, p) ==
  IF i \in glob_raises THEN {}
  ELSE glob_matching(GLOB_ROOTS[i], basename(p), files)

NoCandidateExists(p) == \A k \in 1..7 : ExpectedCandidates(p)[k] \notin files
NothingToFind(p) ==
  NoCandidateExists(p) /\ \A i \in 1..Len(GLOB_ROOTS) : MatchSet(i, p) = {}

\* a content starts with the five characters of the PDF signature
HasSignature(content) ==
  Len(content) >= 5 /\ SubSeq(content, 1, 5) = <<"%", "P", "D", "F", "-">>

WORDS_NOT_FOUND == <<"n", "o", "t", SP, "f", "o", "u", "n", "d">>
WORDS_VALID_PDF == <<"v", "a", "l", "i", "d", SP, "P", "D", "F">>

\* C1: every JSON object the embedded extract_pdf_text returns and every one
\* the standalone main prints (its missing-argument and failed-setup exits
\* included) has the keys success, text and metadata, and a finished run has
\* produced exactly one such object.
C1_ResultKeys ==
  /\ \A i \in 1..Len(output) : RequiredKeys \subseteq DOMAIN output[i]
  /\ \A i \in 1..Len(ret) : RequiredKeys \subseteq DOMAIN ret[i]
  /\ Finished => Len(output) = 1

\* the failed-setup exit of main: an object with empty metadata was printed
C1_Witness ==
  /\ variant = "standalone" /\ pc = "exited" /\ setup = "failed"
  /\ Len(output) = 1 /\ output[1].metadata = EmptyDict

\* C2: main exits with status 1 exactly when no path argument was given or
\* install_required_packages returned False; every other run prints one result
\* and ends with status 0, whatever the result's success field says; no
\* status is set before main ends.
C2_ExitStatus ==
  variant = "standalone" =>
    /\ pc # "exited" => exit_status = -1
    /\ pc = "exited" =>
         /\ exit_status \in {0, 1}
         /\ exit_status = 1 <=> (Len(argv) < 1 \/ setup = "failed")
         /\ Len(output) = 1

\* a run whose extraction failed (success false) yet ended with status 0
C2_Witness ==
  /\ variant = "standalone" /\ pc = "exited" /\ exit_status = 0
  /\ ~output[1].success

\* every strategy of the variant raised: the three of the standalone script,
\* or, in the embedded module, the byte scan after PyPDF2 raised or was absent
AllStrategiesFailed ==
  /\ attempted # <<>>
  /\ \A i \in 1..Len(attempted) : attempted[i].raised
  /\ variant = "standalone" => Len(attempted) = 3
  /\ variant = "embedded" => attempted[Len(attempted)].strategy = "byte_scan"

\* C3: when the file exists but every extraction strategy fails or is
\* unavailable, the result has success = false and a non-empty message in its
\* error field.
C3_TotalFailureIsReported ==
  (Finished /\ AllStrategiesFailed /\ pdf_path \in files) =>
    (~output[1].success /\ ErrorOf(output[1]) # <<>>)

\* C4: when nothing exists at the path, at any candidate or under any glob,
\* the embedded module returns success = false with empty text, method
\* 'failed' and the full ordered candidate list as attempted_paths; the
\* standalone script returns success = false with a message saying the PDF
\* file was not found; neither attempts an extraction strategy.
C4_NotFound ==
  /\ (variant = "embedded" /\ pc = "returned" /\ NothingToFind(argv[1])) =>
       /\ Len(output) = 1
       /\ ~output[1].success
       /\ output[1].text = <<>>
       /\ output[1].metadata.extraction_method = "failed"
       /\ "attempted_paths" \in DOMAIN output[1].metadata
       /\ output[1].metadata.attempted_paths = ExpectedCandidates(argv[1])
       /\ attempted = <<>>
  /\ (variant = "standalone" /\ pc = "exited" /\ setup = "ok" /\ argv[1] \notin files) =>
       /\ Len(output) = 1
       /\ ~output[1].success
       /\ Contains(ErrorOf(output[1]), WORDS_NOT_FOUND)
       /\ attempted = <<>>

\* the embedded module returned its not-found result with seven attempted paths
C4_Witness ==
  /\ variant = "embedded" /\ pc = "returned" /\ NothingToFind(argv[1])
  /\ Len(output) = 1
  /\ "attempted_paths" \in DOMAIN output[1].metadata
  /\ Len(output[1].metadata.attempted_paths) = 7

Invoked(strategy) ==
  /\ Len(attempted') = Len(attempted) + 1
  /\ SubSeq(attempted', 1, Len(attempted)) = attempted
  /\ attempted'[Len(attempted')].strategy = strategy

\* C5: the standalone script runs enhanced OCR first; it invokes the
\* multilingual library exactly when OCR failed or the text it left has a
\* trimmed length below 100, and then PyPDF2 exactly when the text held has a
\* trimmed length below 50; no other step invokes a strategy.
C5_CascadeStaging ==
  [][variant = "standalone" =>
       /\ pc = "ocr" => Invoked("enhanced_ocr")
       /\ pc = "multi" =>
            IF attempted[1].raised \/ TrimmedLength(extracted_text) < 100
            THEN Invoked("multilingual_pdf2text")
            ELSE attempted' = attempted
       /\ pc = "basic" =>
            IF TrimmedLength(extracted_text) < 50
            THEN Invoked("pypdf2")
            ELSE attempted' = attempted
       /\ pc \notin {"ocr", "multi", "basic"} => attempted' = attempted]_vars

\* OCR left exactly 100 characters: the multilingual stage was passed over,
\* and so was PyPDF2
C5_Witness ==
  /\ variant = "standalone" /\ pc = "finish"
  /\ Len(attempted) = 1 /\ ~attempted[1].raised
  /\ TrimmedLength(extracted_text) = 100

\* C6: post_process_extracted_text is idempotent: applied to its own result
\* it returns that result unchanged.
C6_Idempotent == pc = "twice" => twice[1] = once[1]

\* C7: when the embedded byte scan reads a file that does not start with
\* '%PDF-', the result has success = false and its error field says the file
\* is not a valid PDF.
C7_InvalidPdfIsError ==
  (/\ variant = "embedded" /\ pc = "returned"
   /\ lastRun # <<>>
   /\ lastRun[1].strategy = "byte_scan"
   /\ lastRun[1].doc.open = "ok"
   /\ ~HasSignature(lastRun[1].doc.content)) =>
    (~output[1].success /\ Contains(ErrorOf(output[1]), WORDS_VALID_PDF))

\* the six conditions under which a text counts as garbled
G_Short(t) == TrimmedLength(t) < 10
G_LowRatio(t) ==
  10 * Cardinality({i \in 1..Len(t) :
                      t[i] \in Lower \cup Upper \cup Digit \cup Whitespace
                                 \cup {".", ",", ";", ":", "!", "?", "(", ")", "-"}})
    < 7 * Len(t)
G_ManySpaces(t) == 10 * Cardinality({i \in 1..Len(t) : t[i] = SP}) > 3 * Len(t)
G_ManyCaps(t) == 2 * Cardinality({i \in 1..Len(t) : t[i] \in Upper}) > Len(t)
G_RepeatedCap(t) ==
  \E i \in 1..(Len(t) - 4) : t[i] \in Upper /\ \A k \in 1..4 : t[i + k] = t[i]
G_TripleSpace(t) ==
  \E i \in 1..(Len(t) - 2) : t[i] = SP /\ t[i + 1] = SP /\ t[i + 2] = SP

\* C8 as stated: is_text_garbled flags a text exactly when it is short, has
\* fewer than 70% meaningful characters, more than 30% spaces, more than 50%
\* uppercase letters, or an uppercase letter five times in a row.
C8_FiveConditions ==
  pc = "classified" =>
    (garbled[1] <=> \/ G_Short(input) \/ G_LowRatio(input) \/ G_ManySpaces(input)
                    \/ G_ManyCaps(input) \/ G_RepeatedCap(input))

\* C8 amended: is_text_garbled flags a text exactly when one of those five
\* conditions holds or the text contains three consecutive spaces.
C8_SixConditions ==
  pc = "classified" =>
    (garbled[1] <=> \/ G_Short(input) \/ G_LowRatio(input) \/ G_ManySpaces(input)
                    \/ G_ManyCaps(input) \/ G_RepeatedCap(input)
                    \/ G_TripleSpace(input))

\* a text flagged for its three consecutive spaces alone
C8_Witness ==
  /\ pc = "classified" /\ garbled[1]
  /\ G_TripleSpace(input)
  /\ ~G_Short(input) /\ ~G_LowRatio(input) /\ ~G_ManySpaces(input)
  /\ ~G_ManyCaps(input) /\ ~G_RepeatedCap(input)

ExistsTest(path) == [op |-> "exists", arg |-> path]

\* C9: the embedded module tests the nominal path first and, if it exists,
\* tests nothing else; otherwise it tests the candidates in list order up to
\* the first that exists and uses that one; only when no candidate exists does
\* it consult the glob patterns, in their order, up to the first that matches,
\* and it uses that pattern's first match.
C9_ResolutionOrder ==
  (variant = "embedded" /\ pc # "start") =>
    LET p == argv[1]
        pp == ExpectedCandidates(p)
        hits == {k \in 1..7 : pp[k] \in files}
        matching == {i \in 1..Len(GLOB_ROOTS) : MatchSet(i, p) # {}}
    IN IF p \in files
       THEN probed = <<ExistsTest(p)>> /\ pdf_path = p
       ELSE IF hits # {}
       THEN LET k == CHOOSE h \in hits : \A j \in hits : h <= j
            IN /\ probed = <<ExistsTest(p)>> \o [i \in 1..k |-> ExistsTest(pp[i])]
               /\ pdf_path = pp[k]
       ELSE LET g == IF matching = {} THEN Len(GLOB_ROOTS)
                     ELSE CHOOSE m \in matching : \A j \in matching : m <= j
            IN /\ Len(probed) = 8 + g
               /\ SubSeq(probed, 1, 8) = <<ExistsTest(p)>> \o [i \in 1..7 |-> ExistsTest(pp[i])]
               /\ \A i \in 1..g :
                    /\ probed[8 + i].op = "glob"
                    /\ probed[8 + i].arg = GLOB_ROOTS[i] \o basename(p)
               /\ matching # {} =>
                    /\ pdf_path = probed[8 + g].matches[1]
                    /\ pdf_path \in MatchSet(g, p)
               /\ matching = {} => pc = "returned" /\ ~output[1].success

\* the file was found by the second glob pattern after the first one raised
C9_Witness ==
  /\ variant = "embedded" /\ pc = "stat"
  /\ Len(probed) = 10
  /\ probed[9].raised
  /\ pdf_path \in MatchSet(2, argv[1])

\* a page fails when its extraction raises (PyPDF2 returning None included)
OcrPageFails(pg) ==
  pg.primary_raises \/ (is_text_garbled(pg.primary) /\ pg.alt_raises)
PageFails(strategy, pg) ==
  IF strategy = "enhanced_ocr" THEN OcrPageFails(pg) ELSE pg.kind # "text"
\* the text of a page that extracts is in the strategy's text
PageHeld(strategy, pg, text) ==
  IF strategy = "enhanced_ocr"
  THEN Contains(text, pg.primary) \/ Contains(text, pg.alt)
  ELSE Contains(text, pg.text)

\* C10: in the page-by-page strategies (enhanced OCR, PyPDF2 in the
\* standalone script, PyPDF2 in the embedded module), when the document opens
\* and its pages can be listed, a page that fails is skipped: the strategy
\* does not fail and its text holds the text of every page that extracts,
\* before or after the failing page.
C10_PageFailuresSkipped ==
  (/\ lastRun # <<>>
   /\ lastRun[1].strategy \in {"enhanced_ocr", "pypdf2"}
   /\ lastRun[1].doc.open = "ok"
   /\ (lastRun[1].strategy = "pypdf2" => ~lastRun[1].doc.iter_fail)) =>
    /\ ~lastRun[1].raised
    /\ \A i \in 1..Len(lastRun[1].doc.pages) :
         \/ PageFails(lastRun[1].strategy, lastRun[1].doc.pages[i])
         \/ PageHeld(lastRun[1].strategy, lastRun[1].doc.pages[i], lastRun[1].text)

\* the garbled-text heuristic flags a text
Flagged(t) ==
  \/ G_Short(t) \/ G_LowRatio(t) \/ G_ManySpaces(t)
  \/ G_ManyCaps(t) \/ G_RepeatedCap(t) \/ G_TripleSpace(t)

\* C11: in extract_with_enhanced_ocr every page is recognised once with the
\* primary configuration and at most once more, with the alternate
\* configuration, exactly when the primary call returned a text the garbled
\* heuristic flags; the page adds the alternate output when that is longer
\* than the primary and not flagged, the primary output otherwise, and
\* nothing when one of its calls raised; no page gets a third call.
C11_OcrRetry ==
  (/\ lastRun # <<>>
   /\ lastRun[1].strategy = "enhanced_ocr"
   /\ lastRun[1].doc.open = "ok") =>
    /\ Len(lastRun[1].pages) = Len(lastRun[1].doc.pages)
    /\ \A i \in 1..Len(lastRun[1].doc.pages) :
         LET pg == lastRun[1].doc.pages[i]
             calls == lastRun[1].pages[i].calls
             added == lastRun[1].pages[i].added
             retried == ~pg.primary_raises /\ Flagged(pg.primary)
         IN /\ Len(calls) \in {1, 2}
            /\ calls[1].config = PSM_PRIMARY
            /\ Len(calls) = 2 <=> retried
            /\ Len(calls) = 2 => calls[2].config = PSM_ALTERNATE
            /\ IF pg.primary_raises \/ (retried /\ pg.alt_raises)
               THEN added = <<>>
               ELSE IF retried /\ Len(pg.alt) > Len(pg.primary) /\ ~Flagged(pg.alt)
               THEN added = <<pg.alt>>
               ELSE added = <<pg.primary>>

\* a run with a page recognised twice whose alternate output was taken and a
\* page recognised once
C11_Witness ==
  /\ lastRun # <<>>
  /\ lastRun[1].strategy = "enhanced_ocr"
  /\ lastRun[1].doc.open = "ok"
  /\ \E i \in 1..Len(lastRun[1].pages) :
       /\ Len(lastRun[1].pages[i].calls) = 2
       /\ lastRun[1].pages[i].added = <<lastRun[1].doc.pages[i].alt>>
       /\ lastRun[1].doc.pages[i].alt # lastRun[1].doc.pages[i].primary
  /\ \E i \in 1..Len(lastRun[1].pages) :
       /\ Len(lastRun[1].pages[i].calls) = 1
       /\ lastRun[1].pages[i].added = <<lastRun[1].doc.pages[i].primary>>

\* the tags a strategy reports as extraction_method
TagsOf(strategy) ==
  IF strategy = "byte_scan" THEN {"basic_text_extraction", "file_info_only"}
  ELSE {strategy}

\* what a result carries of a strategy's output: the standalone script
\* post-processes a non-empty text, the embedded module trims it
Returned(text) ==
  IF variant = "standalone"
  THEN IF text # <<>> THEN post_process_extracted_text(text) ELSE text
  ELSE strip(text)

\* C12: in every result with success = true, extraction_method names the
\* strategy whose output is the returned text: a non-empty text never comes
\* with 'none' or 'failed', the tag is never that of a strategy that raised,
\* and a strategy tag is reported only with the output of a run of that
\* strategy that did not raise.
C12_MethodNamesProducer ==
  (Finished /\ Len(output) = 1 /\ output[1].success) =>
    LET text == output[1].text
        method == output[1].metadata.extraction_method
    IN /\ text # <<>> => method \notin {"none", "failed"}
       /\ \A k \in 1..Len(attempted) :
            attempted[k].raised => method \notin TagsOf(attempted[k].strategy)
       /\ method \notin {"none", "failed"} =>
            \E k \in 1..Len(attempted) :
              /\ method \in TagsOf(attempted[k].strategy)
              /\ ~attempted[k].raised
              /\ text = Returned(attempted[k].text)

\* the lines of a text: its maximal runs without a newline, in order
RECURSIVE LinesFrom(_, _)
LinesFrom(t, i) ==
  LET breaks == {j \in i..Len(t) : t[j] = NL}
  IN IF breaks = {} THEN <<SubSeq(t, i, Len(t))>>
     ELSE LET j == CHOOSE b \in breaks : \A c \in breaks : b <= c
          IN <<SubSeq(t, i, j - 1)>> \o LinesFrom(t, j + 1)
Lines(t) == LinesFrom(t, 1)

\* the parenthesised fragments of a content that the byte scan accepts
Accepted(content) == readable_fragments(findall_parens(content, 1), 1)

\* the embedded module found the file, read its statistics and is past the
\* strategies
PastStrategies ==
  /\ variant = "embedded"
  /\ pc = "result" \/ (pc = "returned" /\ output[1].success)
ByteScanRan == \E k \in 1..Len(attempted) : attempted[k].strategy = "byte_scan"
PyPDF2Ran == attempted # <<>> /\ attempted[1].strategy = "pypdf2"
ScannedPdf ==
  /\ PastStrategies /\ ByteScanRan
  /\ lastRun[1].doc.open = "ok"
  /\ HasSignature(lastRun[1].doc.content)
  /\ Accepted(lastRun[1].doc.content) # <<>>
\* the scan's text is the first 50 accepted fragments, one per line
FirstFiftyFragments ==
  LET fragments == Accepted(lastRun[1].doc.content)
      n == IF Len(fragments) < 50 THEN Len(fragments) ELSE 50
  IN /\ Lines(lastRun[1].text) = SubSeq(fragments, 1, n)
     /\ pc = "returned" => output[1].text = lastRun[1].text

====
